---- MODULE Spec2Model ----
(***************************************************************************)
(* A model of the catalogue utilities of Master-Git:                       *)
(*   Dades/bootcamp_session_4/src/mymodule.py  safe_to_numeric, filter_data *)
(*   Dades/Idea/module.py                      filter_data (second copy)    *)
(*   Dades/my_module.py                        safe_to_numeric, clean_data  *)
(*   Dades/mymodule.py                         clean_data (second copy)     *)
(*                                                                         *)
(* A DataFrame is [columns, index, rows]: the ordered column labels, the   *)
(* row labels, and one function (column label -> value) per row.  Column   *)
(* labels are unique.  A cell of a numeric column is an exact rational     *)
(* [n, d] with d > 0, or NaN (d = 0): arithmetic is exact, the rounding of *)
(* IEEE-754 doubles is not represented.                                    *)
(***************************************************************************)
EXTENDS Integers, Sequences, FiniteSets, TLC

VARIABLES df, confidence, size_range, col, pc, result, again

vars == <<df, confidence, size_range, col, pc, result, again>>

\* Bounds of the model: the rows of a table; the rows of a table whose schema
\* varies; the values of a column.
MaxRows == 2
MaxRowsSchema == 1
MaxN == 3

Range(s) == {s[k] : k \in DOMAIN s}

(***************************************************************************)
(* float64 values and the operators the filters use on them.               *)
(***************************************************************************)
R(n, d) == [n |-> n, d |-> d]
NaN == R(0, 0)
isnan(x) == x.d = 0

\* x * y
mul(x, y) == R(x.n * y.n, x.d * y.d)
\* x / y, for the positive literal divisors of the source (0.4)
div(x, y) == R(x.n * y.d, x.d * y.n)
\* comparisons: any comparison with NaN is False
gt(x, y) == ~isnan(x) /\ ~isnan(y) /\ x.n * y.d > y.n * x.d
lt(x, y) == ~isnan(x) /\ ~isnan(y) /\ x.n * y.d < y.n * x.d
ge(x, y) == ~isnan(x) /\ ~isnan(y) /\ x.n * y.d >= y.n * x.d

(***************************************************************************)
(* DataFrame indexing.                                                     *)
(***************************************************************************)
KeyError(key) == [tag |-> "KeyError", key |-> key]
Ok(value) == [tag |-> "ok", value |-> value]

\* the labels of `labels` that df does not hold, in the order they are asked for
missing(frame, labels) == SelectSeq(labels, LAMBDA c : c \notin Range(frame.columns))

\* positions of the True entries of a boolean mask, ascending
nonzero(m) == SelectSeq([k \in 1..Len(m) |-> k], LAMBDA k : m[k])

\* a mutant: the selected rows come out in reverse order
getitem_bool_reversed(frame, m) ==
    LET ix == nonzero(m)
        n == Len(ix)
    IN [columns |-> frame.columns,
        index |-> [j \in 1..n |-> frame.index[ix[n + 1 - j]]],
        rows |-> [j \in 1..n |-> frame.rows[ix[n + 1 - j]]]]

\* df[mask]: the rows whose mask entry is True, in order, labels kept
getitem_bool(frame, m) ==
    LET ix == nonzero(m)
    IN [columns |-> frame.columns,
        index |-> [j \in 1..Len(ix) |-> frame.index[ix[j]]],
        rows |-> [j \in 1..Len(ix) |-> frame.rows[ix[j]]]]

\* df[list of labels]: the listed columns in the listed order, or KeyError
getitem_columns(frame, labels) ==
    IF missing(frame, labels) # <<>>
    THEN KeyError(Head(missing(frame, labels)))
    ELSE Ok([columns |-> labels,
             index |-> frame.index,
             rows |-> [j \in 1..Len(frame.rows) |->
                          [c \in Range(labels) |-> frame.rows[j][c]]]])

(***************************************************************************)
(* filter_data, Dades/bootcamp_session_4/src/mymodule.py                   *)
(***************************************************************************)
\* the columns the mask reads, in the order the expression evaluates them
mask_columns ==
    <<"modelMag_u", "modelMag_g", "modelMag_r", "modelMag_i", "modelMag_z",
      "modelMagErr_u", "modelMagErr_g", "modelMagErr_r", "modelMagErr_i",
      "modelMagErr_z", "p_cs_debiased", "p_el_debiased", "petroR90_r">>

\* a mutant: the magnitude and error tests are not strict
mask_nonstrict(frame, conf, size) ==
    [k \in 1..Len(frame.rows) |->
        LET row == frame.rows[k] IN
           ge(row["modelMag_u"], R(-30, 1))
        /\ ge(row["modelMag_g"], R(-30, 1))
        /\ ge(row["modelMag_r"], R(-30, 1))
        /\ ge(row["modelMag_i"], R(-30, 1))
        /\ ge(row["modelMag_z"], R(-30, 1))
        /\ lt(row["modelMagErr_u"], R(5, 10))
        /\ lt(row["modelMagErr_g"], R(5, 100))
        /\ lt(row["modelMagErr_r"], R(5, 100))
        /\ lt(row["modelMagErr_i"], R(5, 100))
        /\ lt(row["modelMagErr_z"], R(1, 10))
        /\ (ge(row["p_cs_debiased"], conf) \/ ge(row["p_el_debiased"], conf))
        /\ gt(div(mul(row["petroR90_r"], R(2, 1)), R(4, 10)), size[1])
        /\ lt(div(mul(mul(row["petroR90_r"], R(2, 1)), R(15, 10)), R(4, 10)), size[2])]

\* a mutant: the confidence is clamped to 1 before it is compared
mask_clamped(frame, conf, size) ==
    [k \in 1..Len(frame.rows) |->
        LET row == frame.rows[k]
            c == IF gt(conf, R(1, 1)) THEN R(1, 1) ELSE conf
        IN
           gt(row["modelMag_u"], R(-30, 1))
        /\ gt(row["modelMag_g"], R(-30, 1))
        /\ gt(row["modelMag_r"], R(-30, 1))
        /\ gt(row["modelMag_i"], R(-30, 1))
        /\ gt(row["modelMag_z"], R(-30, 1))
        /\ lt(row["modelMagErr_u"], R(5, 10))
        /\ lt(row["modelMagErr_g"], R(5, 100))
        /\ lt(row["modelMagErr_r"], R(5, 100))
        /\ lt(row["modelMagErr_i"], R(5, 100))
        /\ lt(row["modelMagErr_z"], R(1, 10))
        /\ (ge(row["p_cs_debiased"], c) \/ ge(row["p_el_debiased"], c))
        /\ gt(div(mul(row["petroR90_r"], R(2, 1)), R(4, 10)), size[1])
        /\ lt(div(mul(mul(row["petroR90_r"], R(2, 1)), R(15, 10)), R(4, 10)), size[2])]

\* mask: one boolean per row (size is the pair size_range, 1-based here)
mask(frame, conf, size) ==
    [k \in 1..Len(frame.rows) |->
        LET row == frame.rows[k] IN
        \* correct magnitudes
           gt(row["modelMag_u"], R(-30, 1))
        /\ gt(row["modelMag_g"], R(-30, 1))
        /\ gt(row["modelMag_r"], R(-30, 1))
        /\ gt(row["modelMag_i"], R(-30, 1))
        /\ gt(row["modelMag_z"], R(-30, 1))
        \* reasonable errors
        /\ lt(row["modelMagErr_u"], R(5, 10))
        /\ lt(row["modelMagErr_g"], R(5, 100))
        /\ lt(row["modelMagErr_r"], R(5, 100))
        /\ lt(row["modelMagErr_i"], R(5, 100))
        /\ lt(row["modelMagErr_z"], R(1, 10))
        \* very certain about the classification
        /\ (ge(row["p_cs_debiased"], conf) \/ ge(row["p_el_debiased"], conf))
        \* medium size
        /\ gt(div(mul(row["petroR90_r"], R(2, 1)), R(4, 10)), size[1])
        /\ lt(div(mul(mul(row["petroR90_r"], R(2, 1)), R(15, 10)), R(4, 10)), size[2])]

\* a mutant: the magnitude errors are kept in the projection
cols_to_keep_with_errors ==
    <<"specobjid", "objid", "ra", "dec", "p_el_debiased", "p_cs_debiased",
      "spiral", "elliptical">>
    \o <<"petroR50_r", "petroR90_r">>
    \o <<"modelMag_u", "modelMag_g", "modelMag_r", "modelMag_i", "modelMag_z">>
    \o <<"modelMagErr_u", "modelMagErr_g", "modelMagErr_r", "modelMagErr_i",
         "modelMagErr_z">>
    \o <<"extinction_u", "extinction_g", "extinction_r", "extinction_i",
         "extinction_z">>

\* a mutant: the size measures are left out of the projection
cols_to_keep_without_sizes ==
    <<"specobjid", "objid", "ra", "dec", "p_el_debiased", "p_cs_debiased",
      "spiral", "elliptical">>
    \o <<"modelMag_u", "modelMag_g", "modelMag_r", "modelMag_i", "modelMag_z">>
    \o <<"extinction_u", "extinction_g", "extinction_r", "extinction_i",
         "extinction_z">>

cols_to_keep ==
    <<"specobjid", "objid", "ra", "dec", "p_el_debiased", "p_cs_debiased",
      "spiral", "elliptical">>
    \o <<"petroR50_r", "petroR90_r">>
    \o <<"modelMag_u", "modelMag_g", "modelMag_r", "modelMag_i", "modelMag_z">>
    \o <<"extinction_u", "extinction_g", "extinction_r", "extinction_i",
         "extinction_z">>

\* a mutant: a missing mask column is read as NaN instead of raising
filter_data_lenient(frame, conf, size) ==
    LET filled == [columns |-> frame.columns \o missing(frame, mask_columns),
                   index |-> frame.index,
                   rows |-> [j \in 1..Len(frame.rows) |->
                       [c \in Range(frame.columns) \cup Range(mask_columns) |->
                           IF c \in Range(frame.columns)
                           THEN frame.rows[j][c] ELSE NaN]]]
    IN getitem_columns(getitem_bool(filled, mask(filled, conf, size)),
                       SelectSeq(cols_to_keep,
                                 LAMBDA c : c \in Range(filled.columns)))

\* filter_data(df, confidence, size_range): df[mask][cols_to_keep]
filter_data(frame, conf, size) ==
    IF missing(frame, mask_columns) # <<>>
    THEN KeyError(Head(missing(frame, mask_columns)))
    ELSE getitem_columns(getitem_bool(frame, mask(frame, conf, size)), cols_to_keep)


(***************************************************************************)
(* filter_data, Dades/Idea/module.py (a copy of the function above)        *)
(***************************************************************************)
\* mask of the copy
mask_Idea(frame, conf, size) ==
    [k \in 1..Len(frame.rows) |->
        LET row == frame.rows[k] IN
           gt(row["modelMag_u"], R(-30, 1))
        /\ gt(row["modelMag_g"], R(-30, 1))
        /\ gt(row["modelMag_r"], R(-30, 1))
        /\ gt(row["modelMag_i"], R(-30, 1))
        /\ gt(row["modelMag_z"], R(-30, 1))
        /\ lt(row["modelMagErr_u"], R(5, 10))
        /\ lt(row["modelMagErr_g"], R(5, 100))
        /\ lt(row["modelMagErr_r"], R(5, 100))
        /\ lt(row["modelMagErr_i"], R(5, 100))
        /\ lt(row["modelMagErr_z"], R(1, 10))
        /\ (ge(row["p_cs_debiased"], conf) \/ ge(row["p_el_debiased"], conf))
        /\ gt(div(mul(row["petroR90_r"], R(2, 1)), R(4, 10)), size[1])
        /\ lt(div(mul(mul(row["petroR90_r"], R(2, 1)), R(15, 10)), R(4, 10)), size[2])]

\* cols_to_keep of the copy
cols_to_keep_Idea ==
    <<"specobjid", "objid", "ra", "dec", "p_el_debiased", "p_cs_debiased",
      "spiral", "elliptical">>
    \o <<"petroR50_r", "petroR90_r">>
    \o <<"modelMag_u", "modelMag_g", "modelMag_r", "modelMag_i", "modelMag_z">>
    \o <<"extinction_u", "extinction_g", "extinction_r", "extinction_i",
         "extinction_z">>

filter_data_Idea(frame, conf, size) ==
    IF missing(frame, mask_columns) # <<>>
    THEN KeyError(Head(missing(frame, mask_columns)))
    ELSE getitem_columns(getitem_bool(frame, mask_Idea(frame, conf, size)),
                         cols_to_keep_Idea)

(***************************************************************************)
(* clean_data, Dades/my_module.py: thresholds 0.9, 64 and 20 written in,   *)
(* the upper size test before the lower one.                               *)
(***************************************************************************)
\* a mutant: the confidence written in is the default 0.8 of filter_data
clean_data_mask_loose(frame) ==
    [k \in 1..Len(frame.rows) |->
        LET row == frame.rows[k] IN
           gt(row["modelMag_u"], R(-30, 1))
        /\ gt(row["modelMag_g"], R(-30, 1))
        /\ gt(row["modelMag_r"], R(-30, 1))
        /\ gt(row["modelMag_i"], R(-30, 1))
        /\ gt(row["modelMag_z"], R(-30, 1))
        /\ lt(row["modelMagErr_u"], R(5, 10))
        /\ lt(row["modelMagErr_g"], R(5, 100))
        /\ lt(row["modelMagErr_r"], R(5, 100))
        /\ lt(row["modelMagErr_i"], R(5, 100))
        /\ lt(row["modelMagErr_z"], R(1, 10))
        /\ (ge(row["p_cs_debiased"], R(8, 10)) \/ ge(row["p_el_debiased"], R(8, 10)))
        /\ lt(div(mul(mul(row["petroR90_r"], R(2, 1)), R(15, 10)), R(4, 10)), R(64, 1))
        /\ gt(div(mul(row["petroR90_r"], R(2, 1)), R(4, 10)), R(20, 1))]

\* mask of clean_data
clean_data_mask(frame) ==
    [k \in 1..Len(frame.rows) |->
        LET row == frame.rows[k] IN
           gt(row["modelMag_u"], R(-30, 1))
        /\ gt(row["modelMag_g"], R(-30, 1))
        /\ gt(row["modelMag_r"], R(-30, 1))
        /\ gt(row["modelMag_i"], R(-30, 1))
        /\ gt(row["modelMag_z"], R(-30, 1))
        /\ lt(row["modelMagErr_u"], R(5, 10))
        /\ lt(row["modelMagErr_g"], R(5, 100))
        /\ lt(row["modelMagErr_r"], R(5, 100))
        /\ lt(row["modelMagErr_i"], R(5, 100))
        /\ lt(row["modelMagErr_z"], R(1, 10))
        /\ (ge(row["p_cs_debiased"], R(9, 10)) \/ ge(row["p_el_debiased"], R(9, 10)))
        /\ lt(div(mul(mul(row["petroR90_r"], R(2, 1)), R(15, 10)), R(4, 10)), R(64, 1))
        /\ gt(div(mul(row["petroR90_r"], R(2, 1)), R(4, 10)), R(20, 1))]

\* the columns clean_data's mask reads, in the order it evaluates them
clean_data_mask_columns ==
    <<"modelMag_u", "modelMag_g", "modelMag_r", "modelMag_i", "modelMag_z",
      "modelMagErr_u", "modelMagErr_g", "modelMagErr_r", "modelMagErr_i",
      "modelMagErr_z", "p_cs_debiased", "p_el_debiased", "petroR90_r">>

clean_data_cols_to_keep ==
    <<"specobjid", "objid", "ra", "dec", "p_el_debiased", "p_cs_debiased",
      "spiral", "elliptical">>
    \o <<"petroR50_r", "petroR90_r">>
    \o <<"modelMag_u", "modelMag_g", "modelMag_r", "modelMag_i", "modelMag_z">>
    \o <<"extinction_u", "extinction_g", "extinction_r", "extinction_i",
         "extinction_z">>

\* clean_data(df): df_filtered = df[mask][cols_to_keep]
clean_data(frame) ==
    IF missing(frame, clean_data_mask_columns) # <<>>
    THEN KeyError(Head(missing(frame, clean_data_mask_columns)))
    ELSE getitem_columns(getitem_bool(frame, clean_data_mask(frame)),
                         clean_data_cols_to_keep)

(***************************************************************************)
(* clean_data, Dades/mymodule.py (a copy of the function above)            *)
(***************************************************************************)
\* mask of the copy
clean_data_mymodule_mask(frame) ==
    [k \in 1..Len(frame.rows) |->
        LET row == frame.rows[k] IN
           gt(row["modelMag_u"], R(-30, 1))
        /\ gt(row["modelMag_g"], R(-30, 1))
        /\ gt(row["modelMag_r"], R(-30, 1))
        /\ gt(row["modelMag_i"], R(-30, 1))
        /\ gt(row["modelMag_z"], R(-30, 1))
        /\ lt(row["modelMagErr_u"], R(5, 10))
        /\ lt(row["modelMagErr_g"], R(5, 100))
        /\ lt(row["modelMagErr_r"], R(5, 100))
        /\ lt(row["modelMagErr_i"], R(5, 100))
        /\ lt(row["modelMagErr_z"], R(1, 10))
        /\ (ge(row["p_cs_debiased"], R(9, 10)) \/ ge(row["p_el_debiased"], R(9, 10)))
        /\ lt(div(mul(mul(row["petroR90_r"], R(2, 1)), R(15, 10)), R(4, 10)), R(64, 1))
        /\ gt(div(mul(row["petroR90_r"], R(2, 1)), R(4, 10)), R(20, 1))]

clean_data_mymodule_cols_to_keep ==
    <<"specobjid", "objid", "ra", "dec", "p_el_debiased", "p_cs_debiased",
      "spiral", "elliptical">>
    \o <<"petroR50_r", "petroR90_r">>
    \o <<"modelMag_u", "modelMag_g", "modelMag_r", "modelMag_i", "modelMag_z">>
    \o <<"extinction_u", "extinction_g", "extinction_r", "extinction_i",
         "extinction_z">>

clean_data_mymodule(frame) ==
    IF missing(frame, clean_data_mask_columns) # <<>>
    THEN KeyError(Head(missing(frame, clean_data_mask_columns)))
    ELSE getitem_columns(getitem_bool(frame, clean_data_mymodule_mask(frame)),
                         clean_data_mymodule_cols_to_keep)

(***************************************************************************)
(* safe_to_numeric, Dades/bootcamp_session_4/src/mymodule.py.              *)
(* A string is a sequence of characters.  A column is [dtype, values]:     *)
(* object (strings), int64 (integers) or float64 (rationals and NaN).      *)
(* pd.to_numeric(col, errors="raise") on a column of strings converts each *)
(* string by itself: the empty string is a null (NaN); any other string    *)
(* must read [sign] digits [. digits] with at least one digit, and is an   *)
(* integer when it has no decimal point; the first string that does not    *)
(* read raises ValueError.  The result is int64 when every value is an     *)
(* integer and float64 otherwise.  Exponents, blanks, "nan" and "inf", and *)
(* integers beyond 64 bits are not among the strings of the model.         *)
(***************************************************************************)
IsDigit(c) == c \in {"0", "1", "2", "3", "4", "5", "6", "7", "8", "9"}

DigitVal(c) ==
    CASE c = "0" -> 0 [] c = "1" -> 1 [] c = "2" -> 2 [] c = "3" -> 3
      [] c = "4" -> 4 [] c = "5" -> 5 [] c = "6" -> 6 [] c = "7" -> 7
      [] c = "8" -> 8 [] c = "9" -> 9

\* the number of leading digits of s
RECURSIVE ndigits(_)
ndigits(s) ==
    IF s = <<>> \/ ~IsDigit(Head(s)) THEN 0 ELSE 1 + ndigits(Tail(s))

\* the value of a string of digits
RECURSIVE digits_value(_)
digits_value(s) ==
    IF s = <<>> THEN 0
    ELSE 10 * digits_value(SubSeq(s, 1, Len(s) - 1)) + DigitVal(s[Len(s)])

RECURSIVE pow10(_)
pow10(k) == IF k = 0 THEN 1 ELSE 10 * pow10(k - 1)

\* the conversion of one non-empty string: whether it reads as a number,
\* whether it is an integer (no decimal point), and its value
floatify(s) ==
    LET signed == s # <<>> /\ Head(s) \in {"-", "+"}
        sign == IF s # <<>> /\ Head(s) = "-" THEN -1 ELSE 1
        body == IF signed THEN Tail(s) ELSE s
        ni == ndigits(body)
        rest == SubSeq(body, ni + 1, Len(body))
        dot == rest # <<>> /\ Head(rest) = "."
        frac == IF dot THEN Tail(rest) ELSE rest
        nf == IF dot THEN ndigits(frac) ELSE 0
        trail == SubSeq(frac, nf + 1, Len(frac))
    IN [ok |-> ni + nf > 0 /\ trail = <<>>,
        maybe_int |-> ~dot,
        value |-> R(sign * (digits_value(SubSeq(body, 1, ni)) * pow10(nf)
                               + digits_value(SubSeq(frac, 1, nf))),
                    pow10(nf))]

ValueError(position) == [tag |-> "ValueError", position |-> position]

\* a mutant: the result is always float64
to_numeric_float(c) ==
    LET n == Len(c.values)
        bad == SelectSeq([k \in 1..n |-> k],
                         LAMBDA k : c.values[k] # <<>> /\ ~floatify(c.values[k]).ok)
    IN IF bad # <<>> THEN ValueError(Head(bad))
       ELSE Ok([dtype |-> "float64",
                values |-> [k \in 1..n |->
                    IF c.values[k] = <<>> THEN NaN
                    ELSE floatify(c.values[k]).value]])

\* a mutant: integral values are stored as integers however they are written
to_numeric_downcast(c) ==
    LET n == Len(c.values)
        bad == SelectSeq([k \in 1..n |-> k],
                         LAMBDA k : c.values[k] # <<>> /\ ~floatify(c.values[k]).ok)
        ints == \A k \in 1..n : c.values[k] # <<>>
                    /\ floatify(c.values[k]).value.n % floatify(c.values[k]).value.d = 0
    IN IF bad # <<>> THEN ValueError(Head(bad))
       ELSE IF ints
       THEN Ok([dtype |-> "int64",
                values |-> [k \in 1..n |->
                    floatify(c.values[k]).value.n \div floatify(c.values[k]).value.d]])
       ELSE Ok([dtype |-> "float64",
                values |-> [k \in 1..n |->
                    IF c.values[k] = <<>> THEN NaN
                    ELSE floatify(c.values[k]).value]])

\* pd.to_numeric(col, errors="raise") on an object column of strings
to_numeric(c) ==
    LET n == Len(c.values)
        bad == SelectSeq([k \in 1..n |-> k],
                         LAMBDA k : c.values[k] # <<>> /\ ~floatify(c.values[k]).ok)
        ints == \A k \in 1..n : c.values[k] # <<>> /\ floatify(c.values[k]).maybe_int
    IN IF bad # <<>> THEN ValueError(Head(bad))
       ELSE IF ints
       THEN Ok([dtype |-> "int64",
                values |-> [k \in 1..n |-> floatify(c.values[k]).value.n]])
       ELSE Ok([dtype |-> "float64",
                values |-> [k \in 1..n |->
                    IF c.values[k] = <<>> THEN NaN
                    ELSE floatify(c.values[k]).value]])

\* a mutant: no except clause, the ValueError reaches the caller
safe_to_numeric_unguarded(c) == to_numeric(c)

\* safe_to_numeric(col): try: return pd.to_numeric(col, errors="raise")
\*                       except Exception: return col
safe_to_numeric(c) ==
    IF to_numeric(c).tag = "ok" THEN to_numeric(c) ELSE Ok(c)

\* safe_to_numeric, Dades/my_module.py (a copy of the function above)
safe_to_numeric_my_module(c) ==
    IF to_numeric(c).tag = "ok" THEN to_numeric(c) ELSE Ok(c)

\* the strings of the model: the empty string, integers, numbers with a
\* decimal point (whole and not), and strings that are no number
Strings ==
    {  <<>>,
       <<"1">>, <<"2">>, <<"3">>, <<"1", "2">>, <<"-", "3">>,
       <<"1", ".", "0">>, <<"2", ".", "0">>, <<"2", ".", "5">>,
       <<"1", ".">>, <<".", "5">>, <<"-", "2", ".", "5">>,
       <<"x">>, <<"1", "x">>, <<"-">>, <<".">>  }

\* a column of strings
Column(v) == [dtype |-> "object", values |-> v]

(***************************************************************************)
(* The tables and configurations the calls are made with.                  *)
(***************************************************************************)
\* the columns of the table of filter_data's docstring, in its order
example_columns ==
    <<"modelMag_u", "modelMag_g", "modelMag_r", "modelMag_i", "modelMag_z",
      "modelMagErr_u", "modelMagErr_g", "modelMagErr_r", "modelMagErr_i",
      "modelMagErr_z", "p_cs_debiased", "p_el_debiased", "spiral", "elliptical",
      "petroR50_r", "petroR90_r", "specobjid", "objid", "ra", "dec",
      "extinction_u", "extinction_g", "extinction_r", "extinction_i",
      "extinction_z">>

\* a column of the catalogue that no filter reads or keeps
extra_column == "nvote"

\* the row of the table of filter_data's docstring (it passes the filter)
example_row ==
    [modelMag_u |-> R(20, 1), modelMag_g |-> R(19, 1), modelMag_r |-> R(18, 1),
     modelMag_i |-> R(18, 1), modelMag_z |-> R(17, 1),
     modelMagErr_u |-> R(4, 10), modelMagErr_g |-> R(4, 100),
     modelMagErr_r |-> R(4, 100), modelMagErr_i |-> R(4, 100),
     modelMagErr_z |-> R(9, 100),
     p_cs_debiased |-> R(9, 10), p_el_debiased |-> R(1, 10),
     spiral |-> R(1, 1), elliptical |-> R(0, 1),
     petroR50_r |-> R(3, 1), petroR90_r |-> R(5, 1),
     specobjid |-> R(1, 1), objid |-> R(2, 1), ra |-> R(180, 1), dec |-> R(0, 1),
     extinction_u |-> R(1, 10), extinction_g |-> R(1, 10),
     extinction_r |-> R(1, 10), extinction_i |-> R(1, 10),
     extinction_z |-> R(1, 10),
     nvote |-> R(30, 1)]

\* the cells in which a row of the model departs from example_row: each test
\* of the mask at its threshold and on either side of it (the first patch
\* changes nothing: the row is example_row itself)
Patches ==
    {  [objid |-> R(2, 1)],
       [modelMag_u |-> R(-30, 1)], [modelMag_g |-> R(-30, 1)],
       [modelMag_r |-> R(-30, 1)], [modelMag_i |-> R(-30, 1)],
       [modelMag_z |-> R(-30, 1)], [modelMag_r |-> NaN],
       [modelMagErr_u |-> R(5, 10)], [modelMagErr_g |-> R(5, 100)],
       [modelMagErr_r |-> R(5, 100)], [modelMagErr_i |-> R(5, 100)],
       [modelMagErr_z |-> R(1, 10)],
       [p_cs_debiased |-> R(85, 100)],
       [p_cs_debiased |-> R(8, 10), objid |-> R(3, 1)],
       [p_cs_debiased |-> R(1, 10), p_el_debiased |-> R(9, 10)],
       [p_cs_debiased |-> R(1, 10), p_el_debiased |-> R(1, 10)],
       [p_cs_debiased |-> R(1, 1), p_el_debiased |-> R(0, 1)],
       [petroR90_r |-> R(4, 1)], [petroR90_r |-> R(86, 10)],
       [petroR90_r |-> R(15, 1)], [petroR90_r |-> R(10, 1)],
       [petroR90_r |-> NaN]  }

Rows ==
    {[c \in DOMAIN example_row |->
         IF c \in DOMAIN p THEN p[c] ELSE example_row[c]] : p \in Patches}

\* the column lists of well-formed input tables: the full list, and the full
\* list with a column no filter names
FullSchemas == {example_columns, example_columns \o <<extra_column>>}

\* the same, and the full list less one or two of its columns
Schemas ==
    FullSchemas
    \cup {SelectSeq(example_columns, LAMBDA c : c # gone) :
              gone \in Range(example_columns)}
    \cup {SelectSeq(example_columns, LAMBDA c : c \notin gone) :
              gone \in {{"modelMag_z", "extinction_u"},
                        {"modelMagErr_u", "specobjid"}}}

\* the tables of up to maxrows rows over the column lists of `schemas`
Tables(schemas, maxrows) ==
    {[columns |-> s,
      index |-> [j \in 1..Len(rs) |-> j],
      rows |-> [j \in 1..Len(rs) |-> [c \in Range(s) |-> rs[j][c]]]] :
        s \in schemas, rs \in UNION {[1..n -> Rows] : n \in 0..maxrows}}

\* confidence: the default, the value of the repository's test, one above 1
Confidences == {R(8, 10), R(9, 10), R(11, 10)}

\* size_range: the default, and one whose limits the rows above reach
SizeRanges == {<<R(20, 1), R(64, 1)>>, <<R(25, 1), R(75, 1)>>}

None == [tag |-> "none"]
no_column == [dtype |-> "object", values |-> <<>>]

(***************************************************************************)
(* The calls on a table.                                                   *)
(***************************************************************************)
Init ==
    /\ df \in Tables(FullSchemas, MaxRows)
    /\ confidence \in Confidences
    /\ size_range \in SizeRanges
    /\ col = no_column
    /\ pc = "ready"
    /\ result = None
    /\ again = None

\* a table of any schema, any configuration
InitSchema ==
    /\ df \in Tables(Schemas, MaxRowsSchema)
    /\ confidence \in Confidences
    /\ size_range \in SizeRanges
    /\ col = no_column
    /\ pc = "ready"
    /\ result = None
    /\ again = None

\* a full table or a table of any schema, the configuration that clean_data
\* has written in
InitClean ==
    /\ df \in Tables(FullSchemas, MaxRows) \cup Tables(Schemas, MaxRowsSchema)
    /\ confidence = R(9, 10)
    /\ size_range = <<R(20, 1), R(64, 1)>>
    /\ col = no_column
    /\ pc = "ready"
    /\ result = None
    /\ again = None

FilterData ==
    /\ pc = "ready"
    /\ result' = filter_data(df, confidence, size_range)
    /\ pc' = "filter_data"
    /\ UNCHANGED <<df, confidence, size_range, col, again>>

FilterDataIdea ==
    /\ pc = "ready"
    /\ result' = filter_data_Idea(df, confidence, size_range)
    /\ pc' = "filter_data_Idea"
    /\ UNCHANGED <<df, confidence, size_range, col, again>>

CleanData ==
    /\ pc = "ready"
    /\ result' = clean_data(df)
    /\ pc' = "clean_data"
    /\ UNCHANGED <<df, confidence, size_range, col, again>>

CleanDataMymodule ==
    /\ pc = "ready"
    /\ result' = clean_data_mymodule(df)
    /\ pc' = "clean_data_mymodule"
    /\ UNCHANGED <<df, confidence, size_range, col, again>>

\* the caller passes the table filter_data returned to filter_data again
FilterAgain ==
    /\ pc = "filter_data"
    /\ result.tag = "ok"
    /\ again' = filter_data(result.value, confidence, size_range)
    /\ pc' = "refiltered"
    /\ UNCHANGED <<df, confidence, size_range, col, result>>

\* calls on a table that holds every column the filters name
Next == FilterData \/ FilterDataIdea \/ FilterAgain

Spec == Init /\ [][Next]_vars

\* filter_data on a table of any schema
NextSchema == FilterData \/ FilterDataIdea

SpecSchema == InitSchema /\ [][NextSchema]_vars

\* filter_data and its hard-coded copies on a table of any schema
NextClean == FilterData \/ CleanData \/ CleanDataMymodule

SpecClean == InitClean /\ [][NextClean]_vars

(***************************************************************************)
(* The calls on a column.                                                  *)
(***************************************************************************)
InitCoerce ==
    /\ \E n \in 0..MaxN : \E v \in [1..n -> Strings] : col = Column(v)
    /\ df = [columns |-> <<>>, index |-> <<>>, rows |-> <<>>]
    /\ confidence = R(8, 10)
    /\ size_range = <<R(20, 1), R(64, 1)>>
    /\ pc = "ready"
    /\ result = None
    /\ again = None

SafeToNumeric ==
    /\ pc = "ready"
    /\ result' = safe_to_numeric(col)
    /\ pc' = "safe_to_numeric"
    /\ UNCHANGED <<df, confidence, size_range, col, again>>

SafeToNumericMyModule ==
    /\ pc = "ready"
    /\ result' = safe_to_numeric_my_module(col)
    /\ pc' = "safe_to_numeric_my_module"
    /\ UNCHANGED <<df, confidence, size_range, col, again>>

NextCoerce == SafeToNumeric \/ SafeToNumericMyModule

SpecCoerce == InitCoerce /\ [][NextCoerce]_vars

(***************************************************************************)
(* The claims.  What a claim says of the columns, the projection and the   *)
(* row predicate is written here from the claim's text, not taken from the *)
(* definitions above.                                                      *)
(***************************************************************************)
Magnitudes == {"modelMag_u", "modelMag_g", "modelMag_r", "modelMag_i", "modelMag_z"}

MagnitudeErrors ==
    {"modelMagErr_u", "modelMagErr_g", "modelMagErr_r", "modelMagErr_i",
     "modelMagErr_z"}

\* identifiers, position, probabilities and class scores, size measures,
\* model magnitudes, extinction values
Projection ==
    <<"specobjid", "objid", "ra", "dec",
      "p_el_debiased", "p_cs_debiased", "spiral", "elliptical",
      "petroR50_r", "petroR90_r",
      "modelMag_u", "modelMag_g", "modelMag_r", "modelMag_i", "modelMag_z",
      "extinction_u", "extinction_g", "extinction_r", "extinction_i",
      "extinction_z">>

RequiredColumns ==
    Magnitudes \cup MagnitudeErrors
    \cup {"p_cs_debiased", "p_el_debiased", "petroR90_r"} \cup Range(Projection)

HasRequiredColumns(frame) == RequiredColumns \subseteq Range(frame.columns)

\* the four conditions of the quality cut on one row
QualityCut(row, conf, size) ==
    LET d == div(mul(row["petroR90_r"], R(2, 1)), R(4, 10)) IN
    /\ \A c \in Magnitudes : gt(row[c], R(-30, 1))
    /\ lt(row["modelMagErr_u"], R(5, 10))
    /\ lt(row["modelMagErr_g"], R(5, 100))
    /\ lt(row["modelMagErr_r"], R(5, 100))
    /\ lt(row["modelMagErr_i"], R(5, 100))
    /\ lt(row["modelMagErr_z"], R(1, 10))
    /\ (ge(row["p_cs_debiased"], conf) \/ ge(row["p_el_debiased"], conf))
    /\ gt(d, size[1])
    /\ lt(mul(d, R(15, 10)), size[2])

\* a row restricted to the projected columns
Projected(row) == [c \in Range(Projection) |-> row[c]]

Filtered == pc \in {"filter_data", "filter_data_Idea"}

C2_ProjectionOf18Columns ==
    (pc = "filter_data" /\ HasRequiredColumns(df)) =>
        /\ result.tag = "ok"
        /\ result.value.columns = Projection
        /\ Len(result.value.columns) = 18

\* C2 amended: the output's columns are exactly the listed projection, in that
\* order, which counts 20 columns; no other column of the input is kept, the
\* magnitude errors in particular.
C2_ProjectionOf20Columns ==
    (pc = "filter_data" /\ HasRequiredColumns(df)) =>
        /\ result.tag = "ok"
        /\ result.value.columns = Projection
        /\ Len(result.value.columns) = 20
        /\ Range(result.value.columns) \cap MagnitudeErrors = {}
        /\ \A j \in 1..Len(result.value.rows) :
              DOMAIN result.value.rows[j] = Range(Projection)

\* C2 witness: a table with an extra column, one of whose rows is kept
C2_Witness ==
    /\ pc = "filter_data"
    /\ extra_column \in Range(df.columns)
    /\ result.tag = "ok"
    /\ Len(result.value.rows) >= 1

\* C3 as stated: filter_data on the table filter_data returned succeeds and
\* returns the same table.
C3_FilterIsIdempotent ==
    (pc = "refiltered") => (again.tag = "ok" /\ again = result)

\* C3 amended: filter_data on the table filter_data returned fails with a
\* missing-column error, because the output no longer holds modelMagErr_u;
\* only the selection of rows is idempotent: the mask selects every row again
\* that it has selected.
C3_OnlyRowSelectionIsIdempotent ==
    (pc = "refiltered") =>
        /\ again = KeyError("modelMagErr_u")
        /\ LET selected == getitem_bool(df, mask(df, confidence, size_range))
           IN /\ getitem_bool(selected, mask(selected, confidence, size_range))
                    = selected
              /\ \A j \in 1..Len(selected.rows) :
                    result.value.rows[j] = Projected(selected.rows[j])

\* C3 witness: the second call was made on a table that holds a row
C3_Witness ==
    /\ pc = "refiltered"
    /\ Len(df.rows) = 2
    /\ Len(result.value.rows) = 1
    /\ again.tag = "KeyError"

\* C4: with a required column absent, any call of filter_data from the ready
\* state ends in a missing-column error that names an absent column, whatever
\* the rows and the configuration, and leaves the input table as it was.
C4_MissingColumnRaises ==
    [][(pc = "ready" /\ pc' = "filter_data" /\ ~HasRequiredColumns(df)) =>
          /\ result'.tag = "KeyError"
          /\ result'.key \in RequiredColumns \ Range(df.columns)
          /\ df' = df]_vars

\* C4 witness: an empty table without a column that only the projection
\* names has raised
C4_Witness ==
    /\ pc = "filter_data"
    /\ "extinction_z" \notin Range(df.columns)
    /\ df.rows = <<>>
    /\ result = KeyError("extinction_z")

\* C8: the rows of the output are a sub-sequence of the rows of the input:
\* there is a strictly increasing map from output positions to input
\* positions under which every output row is the input row, projected, with
\* its label.
C8_OutputIsSubsequence ==
    (Filtered /\ result.tag = "ok") =>
        \E f \in [1..Len(result.value.rows) -> 1..Len(df.rows)] :
            /\ \A i, j \in DOMAIN f : i < j => f[i] < f[j]
            /\ \A j \in DOMAIN f :
                  /\ result.value.rows[j] = Projected(df.rows[f[j]])
                  /\ result.value.index[j] = df.index[f[j]]

\* C8 witness: two different rows, both kept
C8_Witness ==
    /\ pc = "filter_data"
    /\ Len(df.rows) = 2
    /\ df.rows[1] # df.rows[2]
    /\ result.tag = "ok"
    /\ Len(result.value.rows) = 2

\* C9: with every probability in [0, 1] and a confidence above 1, filter_data
\* on a table that holds all required columns raises nothing and returns no
\* row under the fixed projection.
C9_ConfidenceAboveOneGivesEmptyTable ==
    (/\ pc = "filter_data"
     /\ HasRequiredColumns(df)
     /\ gt(confidence, R(1, 1))
     /\ \A k \in 1..Len(df.rows) : \A c \in {"p_cs_debiased", "p_el_debiased"} :
            ge(df.rows[k][c], R(0, 1)) /\ ge(R(1, 1), df.rows[k][c]))
    => /\ result.tag = "ok"
       /\ result.value.rows = <<>>
       /\ result.value.index = <<>>
       /\ result.value.columns = Projection

\* C9 witness: confidence 1.1 on a table with a row of probability 1
C9_Witness ==
    /\ pc = "filter_data"
    /\ confidence = R(11, 10)
    /\ Len(df.rows) = 2
    /\ df.rows[1]["p_cs_debiased"] = R(1, 1)
    /\ result.tag = "ok"

\* C10: both copies of clean_data return what filter_data returns for
\* confidence 0.9 and size range (20, 64): the same table, or the same
\* missing-column error.
C10_CleanDataIsFilterData ==
    (pc \in {"clean_data", "clean_data_mymodule"}) =>
        result = filter_data(df, R(9, 10), <<R(20, 1), R(64, 1)>>)

\* C10 witness: the second copy has kept a row whose probability is 0.9 and
\* left out one whose probability is 0.85
C10_Witness ==
    /\ pc = "clean_data_mymodule"
    /\ result.tag = "ok"
    /\ Len(df.rows) = 2
    /\ df.rows[1]["p_cs_debiased"] = R(85, 100)
    /\ df.rows[2]["p_cs_debiased"] = R(9, 10)
    /\ result.value.index = <<2>>

(***************************************************************************)
(* The claims on safe_to_numeric.  What it is for a string to parse, and   *)
(* the number a string denotes, are written here from the notation of      *)
(* decimal numbers: an optional sign, digits, and optionally a decimal     *)
(* point and digits, with a digit somewhere.  The empty string is a        *)
(* missing value: it counts as read (as NaN), not as a number.             *)
(***************************************************************************)
AllDigits(s) == \A k \in DOMAIN s : IsDigit(s[k])

Unsigned(s) == IF s # <<>> /\ s[1] \in {"-", "+"} THEN Tail(s) ELSE s

IsIntegerLiteral(s) == Unsigned(s) # <<>> /\ AllDigits(Unsigned(s))

IsNumberLiteral(s) ==
    LET u == Unsigned(s) IN
    /\ \E k \in DOMAIN u : IsDigit(u[k])
    /\ \E k \in 0..Len(u) :
          /\ AllDigits(SubSeq(u, 1, k))
          /\ \/ k = Len(u)
             \/ u[k + 1] = "." /\ AllDigits(SubSeq(u, k + 2, Len(u)))

\* the string is read without an error: a missing value or a number
Reads(s) == s = <<>> \/ IsNumberLiteral(s)

RECURSIVE Horner(_, _)
Horner(acc, s) == IF s = <<>> THEN acc ELSE Horner(10 * acc + DigitVal(Head(s)), Tail(s))

\* the number a number literal denotes, as a rational
Denoted(s) ==
    LET u == Unsigned(s)
        dots == {k \in DOMAIN u : u[k] = "."}
        nf == IF dots = {} THEN 0 ELSE Len(u) - (CHOOSE k \in dots : TRUE)
        digits == SelectSeq(u, IsDigit)
    IN R((IF s[1] = "-" THEN -1 ELSE 1) * Horner(0, digits), pow10(nf))

\* the literal denotes a whole number
IsIntegral(s) == IsNumberLiteral(s) /\ Denoted(s).n % Denoted(s).d = 0

Coerced == pc \in {"safe_to_numeric", "safe_to_numeric_my_module"}

C6_IntegerColumnBecomesInt64 ==
    (pc = "safe_to_numeric" /\ \A k \in DOMAIN col.values : IsIntegerLiteral(col.values[k])) =>
        /\ result.tag = "ok"
        /\ result.value.dtype = "int64"
        /\ Len(result.value.values) = Len(col.values)
        /\ \A k \in DOMAIN col.values :
              result.value.values[k] = Denoted(col.values[k]).n

\* C6 witness: the column ["1", "2", "3"] has come back as [1, 2, 3]
C6_Witness ==
    /\ pc = "safe_to_numeric"
    /\ col.values = << <<"1">>, <<"2">>, <<"3">> >>
    /\ result.value.values = <<1, 2, 3>>
    /\ result.tag = "ok"
    /\ result.value.dtype = "int64"

\* C7 as stated: a column whose values all parse comes back numeric, int64 if
\* every value is a whole number and float64 otherwise.
C7_IntegralValuesBecomeInt64 ==
    (Coerced /\ \A k \in DOMAIN col.values : Reads(col.values[k])) =>
        /\ result.tag = "ok"
        /\ result.value.dtype =
              IF \A k \in DOMAIN col.values : IsIntegral(col.values[k])
              THEN "int64" ELSE "float64"

\* C7 amended: a column whose values all parse comes back as a new numeric
\* column of the same length: int64 if every value is written as an integer
\* (no decimal point), float64 otherwise, whole numbers written with a
\* decimal point included; each value is the number its string denotes.
C7_IntegerLiteralsBecomeInt64 ==
    (Coerced /\ \A k \in DOMAIN col.values : Reads(col.values[k])) =>
        /\ result.tag = "ok"
        /\ Len(result.value.values) = Len(col.values)
        /\ IF \A k \in DOMAIN col.values : IsIntegerLiteral(col.values[k])
           THEN /\ result.value.dtype = "int64"
                /\ \A k \in DOMAIN col.values :
                      result.value.values[k] = Denoted(col.values[k]).n
           ELSE /\ result.value.dtype = "float64"
                /\ \A k \in DOMAIN col.values :
                      LET v == result.value.values[k] IN
                      IF col.values[k] = <<>> THEN isnan(v)
                      ELSE /\ ~isnan(v)
                           /\ v.n * Denoted(col.values[k]).d
                                 = Denoted(col.values[k]).n * v.d

\* C7 witness: the column ["1.0", "2.0"] has come back as float64
C7_Witness ==
    /\ pc = "safe_to_numeric"
    /\ col.values = << <<"1", ".", "0">>, <<"2", ".", "0">> >>
    /\ result.tag = "ok"
    /\ result.value.dtype = "float64"

====
